---- MODULE Spec2Model ----
(***************************************************************************)
(* WarehouseSimpleRepo (dephell/repositories/warehouse/_simple.py): the    *)
(* "simple index" repository.  get_releases builds the releases of a       *)
(* package from the index listing, get_dependencies extracts the           *)
(* dependencies of one release from the best artifact of the listing; both *)
(* read the listing through the links cache, get_dependencies reads its    *)
(* result through the deps cache.                                          *)
(*                                                                         *)
(* File names and version strings are sequences of one-character strings,  *)
(* so that _parse_name, str.endswith, canonicalize_name and the version    *)
(* parser are computed character by character, as the code computes them.  *)
(***************************************************************************)
EXTENDS Integers, Sequences, FiniteSets, TLC

(***************************************************************************)
(* Characters and str methods                                              *)
(***************************************************************************)
LowerLetters == {"a", "b", "c", "e", "f", "g", "h", "i", "l", "n", "o", "p",
                 "r", "t", "w", "y", "z"}

UpperLetters == {"F", "O"}

Letters == LowerLetters \cup UpperLetters

Digits == {"0", "1", "2", "3", "7"}

DigitVal(c) ==
    CASE c = "0" -> 0 [] c = "1" -> 1 [] c = "2" -> 2 [] c = "3" -> 3
      [] c = "7" -> 7

\* str.lower() on one character
LowerChar(c) ==
    CASE c = "F" -> "f" [] c = "O" -> "o" [] OTHER -> c

\* str.endswith(suffix)
EndsWith(s, suffix) ==
    /\ Len(s) >= Len(suffix)
    /\ SubSeq(s, Len(s) - Len(suffix) + 1, Len(s)) = suffix

\* str.strip(): leading and trailing whitespace removed
RECURSIVE LStrip(_)
LStrip(s) ==
    IF s # <<>> /\ Head(s) = " " THEN LStrip(Tail(s)) ELSE s

RECURSIVE RStrip(_)
RStrip(s) ==
    IF s # <<>> /\ s[Len(s)] = " " THEN RStrip(SubSeq(s, 1, Len(s) - 1)) ELSE s

Strip(s) == RStrip(LStrip(s))

\* the positions of the character sep in s, ascending
SepPositions(s, sep) == {i \in 1..Len(s) : s[i] = sep}

\* str.partition(sep): (before the first sep, after it); (s, "") without sep
Partition(s, sep) ==
    LET ps == SepPositions(s, sep) IN
    IF ps = {} THEN <<s, <<>>>>
    ELSE LET p == CHOOSE i \in ps : \A j \in ps : i <= j IN
         <<SubSeq(s, 1, p - 1), SubSeq(s, p + 1, Len(s))>>

\* str.rsplit(sep, maxsplit)[0]: what is left of the maxsplit-th separator
\* counted from the right (of the first one, when there are fewer)
RSplitHead(s, sep, maxsplit) ==
    LET ps == SepPositions(s, sep) IN
    IF ps = {} THEN s
    ELSE LET k == IF Cardinality(ps) < maxsplit THEN Cardinality(ps)
                  ELSE maxsplit
             p == CHOOSE i \in ps : Cardinality({j \in ps : j >= i}) = k
         IN  SubSeq(s, 1, p - 1)

\* str.split(sep)
RECURSIVE Split(_, _)
Split(s, sep) ==
    LET pr == Partition(s, sep) IN
    IF SepPositions(s, sep) = {} THEN <<s>>
    ELSE <<pr[1]>> \o Split(pr[2], sep)

\* sep.join(parts)
RECURSIVE Join(_, _)
Join(parts, sep) ==
    IF parts = <<>> THEN <<>>
    ELSE IF Len(parts) = 1 THEN parts[1]
    ELSE parts[1] \o <<sep>> \o Join(Tail(parts), sep)

(***************************************************************************)
(* REX_WORD = re.compile('[a-zA-Z]+'); REX_WORD.match(part) is truthy when *)
(* part begins with a letter.                                              *)
(***************************************************************************)
REX_WORD_match(part) == part # <<>> /\ Head(part) \in Letters

\* the leading parts that REX_WORD matches (the loop with its break)
RECURSIVE NameParts(_)
NameParts(parts) ==
    IF parts # <<>> /\ REX_WORD_match(Head(parts))
    THEN <<Head(parts)>> \o NameParts(Tail(parts))
    ELSE <<>>

\* _parse_name cutting two tags off a wheel's name where the code cuts three
ParseNameTwoTags(fname) ==
    LET f0 == Strip(fname) IN
    IF EndsWith(f0, <<".", "w", "h", "l">>)
    THEN Partition(RSplitHead(f0, "-", 2), "-")
    ELSE LET f1 == RSplitHead(f0, ".", 1)
             f2 == IF EndsWith(f1, <<".", "t", "a", "r">>)
                   THEN RSplitHead(f1, ".", 1) ELSE f1
             parts == Split(f2, "-")
             name == NameParts(parts)
             version == SubSeq(parts, Len(name) + 1, Len(parts))
         IN  <<Join(name, "-"), Join(version, "-")>>

\* _parse_name(fname) -> (name, version)
_parse_name(fname) ==
    LET f0 == Strip(fname) IN
    IF EndsWith(f0, <<".", "w", "h", "l">>)
    THEN Partition(RSplitHead(f0, "-", 3), "-")
    ELSE LET f1 == RSplitHead(f0, ".", 1)
             f2 == IF EndsWith(f1, <<".", "t", "a", "r">>)
                   THEN RSplitHead(f1, ".", 1) ELSE f1
             parts == Split(f2, "-")
             name == NameParts(parts)
             version == SubSeq(parts, Len(name) + 1, Len(parts))
         IN  <<Join(name, "-"), Join(version, "-")>>

(***************************************************************************)
(* packaging.utils.canonicalize_name:                                      *)
(*     re.sub(r"[-_.]+", "-", name).lower()                                *)
(***************************************************************************)
IsNameSep(c) == c \in {"-", "_", "."}

RECURSIVE canonicalize_name(_)
canonicalize_name(name) ==
    IF name = <<>> THEN <<>>
    ELSE IF IsNameSep(Head(name))
    THEN IF Len(name) > 1 /\ IsNameSep(name[2])
         THEN canonicalize_name(Tail(name))
         ELSE <<"-">> \o canonicalize_name(Tail(name))
    ELSE <<LowerChar(Head(name))>> \o canonicalize_name(Tail(name))

(***************************************************************************)
(* packaging.version.parse, as Release's version converter applies it to   *)
(* the version string.  Modelled for the version strings of the shape      *)
(*     N(.N)*[(a|b|rc)N]                                                   *)
(* (release segment, optional pre-release segment); every other string is  *)
(* a legacy version.  A parsed version is compared by its key: the release *)
(* numbers without trailing zeros, then the pre-release segment, a final   *)
(* release being greater than each of its pre-releases.                    *)
(***************************************************************************)
AllDigits(s) == s # <<>> /\ \A i \in 1..Len(s) : s[i] \in Digits

RECURSIVE ToNat(_)
ToNat(s) ==
    IF s = <<>> THEN 0
    ELSE 10 * ToNat(SubSeq(s, 1, Len(s) - 1)) + DigitVal(s[Len(s)])

RECURSIVE StripTrailingZeros(_)
StripTrailingZeros(ns) ==
    IF ns # <<>> /\ ns[Len(ns)] = 0
    THEN StripTrailingZeros(SubSeq(ns, 1, Len(ns) - 1))
    ELSE ns

\* the index of the first letter of s, Len(s) + 1 when it has none
FirstLetter(s) ==
    IF \E i \in 1..Len(s) : s[i] \in Letters
    THEN CHOOSE i \in 1..Len(s) :
             s[i] \in Letters /\ \A j \in 1..(i - 1) : s[j] \notin Letters
    ELSE Len(s) + 1

PreTags == {<<"a">>, <<"b">>, <<"r", "c">>}

PreRank(tag) == CASE tag = <<"a">> -> 0 [] tag = <<"b">> -> 1 [] OTHER -> 2

NoPre == <<>>

LegacyVersion(raw) == [legacy |-> TRUE, release |-> <<>>, pre |-> NoPre]

parse_version(raw) ==
    LET cut == FirstLetter(raw)
        relStr == SubSeq(raw, 1, cut - 1)
        preStr == SubSeq(raw, cut, Len(raw))
        relParts == Split(relStr, ".")
        relOk == \A i \in 1..Len(relParts) : AllDigits(relParts[i])
        tagLen == IF preStr # <<>> /\ Head(preStr) = "r" THEN 2 ELSE 1
        tag == SubSeq(preStr, 1, tagLen)
        num == SubSeq(preStr, tagLen + 1, Len(preStr))
        preOk == preStr = <<>> \/ (tag \in PreTags /\ AllDigits(num))
    IN  IF relOk /\ preOk
        THEN [legacy |-> FALSE,
              release |-> StripTrailingZeros(
                              [i \in 1..Len(relParts) |-> ToNat(relParts[i])]),
              pre |-> IF preStr = <<>> THEN NoPre
                      ELSE <<PreRank(tag), ToNat(num)>>]
        ELSE LegacyVersion(raw)

\* Version.is_prerelease (a legacy version is never a prerelease)
is_prerelease(v) == ~v.legacy /\ v.pre # NoPre

\* tuple comparison of two sequences of numbers
RECURSIVE TupleLess(_, _)
TupleLess(a, b) ==
    IF b = <<>> THEN FALSE
    ELSE IF a = <<>> THEN TRUE
    ELSE IF Head(a) # Head(b) THEN Head(a) < Head(b)
    ELSE TupleLess(Tail(a), Tail(b))

\* Version.__lt__: legacy versions sort before every PEP 440 version
VersionLess(v, w) ==
    IF v.legacy \/ w.legacy THEN v.legacy /\ ~w.legacy
    ELSE IF v.release # w.release THEN TupleLess(v.release, w.release)
    ELSE IF v.pre = NoPre THEN FALSE
    ELSE IF w.pre = NoPre THEN TRUE
    ELSE TupleLess(v.pre, w.pre)

\* Version.__eq__
VersionEq(v, w) == ~VersionLess(v, w) /\ ~VersionLess(w, v)

(***************************************************************************)
(* The index page and the artifacts behind it                              *)
(***************************************************************************)
S_foo == <<"f", "o", "o">>
S_Foo == <<"F", "O", "O">>
S_bar == <<"b", "a", "r">>
S_baz == <<"b", "a", "z">>
V_1_0 == <<"1", ".", "0">>
V_1_0_0 == <<"1", ".", "0", ".", "0">>
V_2_0 == <<"2", ".", "0">>
V_2_0a1 == <<"2", ".", "0", "a", "1">>
X_py3_none_any_whl ==
    <<"p", "y", "3", "-", "n", "o", "n", "e", "-", "a", "n", "y",
      ".", "w", "h", "l">>
X_none_any_whl ==
    <<"-", "n", "o", "n", "e", "-", "a", "n", "y", ".", "w", "h", "l">>
X_whl == <<".", "w", "h", "l">>
X_tar_gz == <<".", "t", "a", "r", ".", "g", "z">>
X_zip == <<".", "z", "i", "p">>
X_tar_bz2 == <<".", "t", "a", "r", ".", "b", "z", "2">>
T_cp37_abi3_win == <<"c", "p", "3", "7", "-", "a", "b", "i", "3", "-",
                     "w", "i", "n">>
Dash == <<"-">>

F_whl_py3 == S_foo \o Dash \o V_1_0 \o Dash \o X_py3_none_any_whl
F_whl_cp37 == S_foo \o Dash \o V_1_0 \o Dash \o T_cp37_abi3_win \o X_whl
F_tgz_1_0 == S_foo \o Dash \o V_1_0 \o X_tar_gz
F_zip_1_0_0 == S_foo \o Dash \o V_1_0_0 \o X_zip
F_tgz_2_0a1 == S_foo \o Dash \o V_2_0a1 \o X_tar_gz
F_tgz_Foo_2_0 == S_Foo \o Dash \o V_2_0 \o X_tar_gz
F_tgz_bar == S_bar \o Dash \o V_1_0 \o X_tar_gz
F_tgz_nover == S_foo \o X_tar_gz
F_bz2_1_0 == S_foo \o Dash \o V_1_0 \o X_tar_bz2

\* an anchor without href or without data-requires-python, and a link
\* without sha256 in its fragment (digest None)
NoHref == <<>>
NoAttr == ""
NoDigest == ""

Anchor(href, sha256, requires) ==
    [href |-> href, sha256 |-> sha256, requires |-> requires]

\* the <a> elements an index page of the model is made of
Anchors ==
    { Anchor(F_whl_py3, "abc", ">=3.6"),
      Anchor(F_whl_cp37, "def", NoAttr),
      Anchor(F_tgz_1_0, NoDigest, NoAttr),
      Anchor(F_zip_1_0_0, "123", NoAttr),
      Anchor(F_tgz_2_0a1, NoDigest, NoAttr),
      Anchor(F_tgz_Foo_2_0, "456", NoAttr),
      Anchor(F_tgz_bar, "789", NoAttr),
      Anchor(F_tgz_nover, NoDigest, NoAttr),
      Anchor(F_bz2_1_0, NoDigest, NoAttr),
      Anchor(NoHref, NoDigest, NoAttr) }

\* the dependencies a converter reads from the artifact at url
ArtifactDeps(url) ==
    CASE url = F_whl_py3 -> <<S_bar, S_baz>>
      [] url = F_whl_cp37 -> <<S_bar>>
      [] url = F_tgz_1_0 -> <<S_baz>>
      [] url = F_tgz_Foo_2_0 -> <<S_bar>>
      [] OTHER -> <<>>

\* the package the calls are about: dep.name = dep.base_name = name
Package == S_foo

\* the versions get_dependencies is called for
ReqVersions == {V_1_0, V_2_0a1}

MaxLinks == 2

\* the sequences of at most n elements of S
RECURSIVE SeqsUpTo(_, _)
SeqsUpTo(S, n) ==
    IF n = 0 THEN {<<>>}
    ELSE LET shorter == SeqsUpTo(S, n - 1) IN
         shorter \cup
         {Append(q, x) : q \in {r \in shorter : Len(r) = n - 1},
                         x \in S} 

Range(q) == {q[i] : i \in 1..Len(q)}

Pages == {q \in SeqsUpTo(Anchors, MaxLinks) : Cardinality(Range(q)) = Len(q)}

(***************************************************************************)
(* _get_links: the link records of a page, in document order               *)
(***************************************************************************)
RECURSIVE _get_links(_)
_get_links(page) ==
    IF page = <<>> THEN <<>>
    ELSE LET tag == Head(page) IN
         IF tag.href = NoHref THEN _get_links(Tail(page))
         ELSE <<[url |-> tag.href,
                 name |-> tag.href,
                 python |-> IF tag.requires # NoAttr THEN tag.requires
                            ELSE "*",
                 digest |-> tag.sha256]>> \o _get_links(Tail(page))

(***************************************************************************)
(* get_releases, lines 71-114: the releases of dep in links                *)
(***************************************************************************)
\* lines 79-84: the link is added to the item of its version, a new item
\* when the version is seen for the first time
InfoIndex(info, version) ==
    CHOOSE i \in 1..Len(info) : info[i].version = version

WithVersion(info, version) ==
    IF \E i \in 1..Len(info) : info[i].version = version THEN info
    ELSE Append(info, [version |-> version, hashes |-> <<>>,
                       pythons |-> <<>>])

\* AddHash without "if link['digest']": what a link without digest has is
\* appended too
AddHashOfEvery(info, k, link) ==
    [info EXCEPT ![k].hashes = Append(@, link.digest)]

AddHash(info, k, link) ==
    IF link.digest # NoDigest
    THEN [info EXCEPT ![k].hashes = Append(@, link.digest)]
    ELSE info

AddPython(info, k, link) ==
    IF link.python # NoAttr
    THEN [info EXCEPT ![k].pythons = Append(@, link.python)]
    ELSE info

AddToVersion(info, version, link) ==
    AddPython(AddHash(info, InfoIndex(info, version), link),
              InfoIndex(info, version), link)

\* lines 73-84: one pass of the loop, parsed being _parse_name(link['name'])
AddLink(info, link, parsed, depName) ==
    IF canonicalize_name(parsed[1]) # depName THEN info
    ELSE IF parsed[2] = <<>> THEN info
    ELSE AddToVersion(WithVersion(info, parsed[2]), parsed[2], link)

\* lines 71-84: releases_info, a dict in insertion order, as the sequence of
\* its items
RECURSIVE releases_info(_, _, _)
releases_info(links, depName, info) ==
    IF links = <<>> THEN info
    ELSE releases_info(Tail(links), depName,
                       AddLink(info, Head(links),
                               _parse_name(Head(links).name), depName))

\* lines 91-98: Release(...); version goes through the parse_version converter
Release(rawName, version, info) ==
    [raw_name |-> rawName,
     version |-> parse_version(version),
     str |-> version,
     python |-> info.pythons,
     hashes |-> info.hashes]

\* bool(release): Release defines neither __bool__ nor __len__
ReleaseTruthy(release) == TRUE

\* Release.__lt__ with equal names and times
ReleaseLess(r1, r2) == VersionLess(r1.version, r2.version)

\* list.sort(reverse=True): descending, equal elements keep their order
RECURSIVE SortReverse(_)
SortReverse(rs) ==
    IF rs = <<>> THEN <<>>
    ELSE LET n == Len(rs)
             done == SortReverse(SubSeq(rs, 1, n - 1))
             x == rs[n]
             before == {i \in 1..Len(done) : ~ReleaseLess(done[i], x)}
             k == Cardinality(before)
         IN  SubSeq(done, 1, k) \o <<x>> \o SubSeq(done, k + 1, Len(done))

\* KeepRelease without the filter of lines 103-104
KeepEveryRelease(release, repoPre, depPre) == TRUE

\* KeepRelease heeding the repository's setting alone
KeepReleaseRepoOnly(release, repoPre, depPre) ==
    ~(is_prerelease(release.version) /\ ~repoPre)

\* lines 103-106: the releases kept in the main list
KeepRelease(release, repoPre, depPre) ==
    ~(is_prerelease(release.version) /\ ~repoPre /\ ~depPre)

\* line 110: "if not release and prereleases", release being the variable
\* of the loop of line 89, unbound when the loop body never ran
FallbackToPrereleases(all, prereleases) ==
    ~ReleaseTruthy(all[Len(all)]) /\ prereleases # <<>>

\* an exception that carries no more than its type
Exception(type) == [error |-> type]

\* line 110 reads release before any assignment to it
UnboundLocalError == Exception("UnboundLocalError")

Returned(value) == [kind |-> "return", value |-> value]

Raised(exc) == [kind |-> "raise", value |-> exc]

\* lines 89-98: a Release for every item of releases_info
Releases(rawName, info) ==
    [i \in 1..Len(info) |-> Release(rawName, info[i].version, info[i])]

Prereleases(all) == SelectSeq(all, LAMBDA r : is_prerelease(r.version))

\* lines 100-114, all being the releases the loop of line 89 built
FilterAndSort(all, repoPre, depPre) ==
    IF all = <<>> THEN Raised(UnboundLocalError)
    ELSE IF FallbackToPrereleases(all, Prereleases(all))
    THEN Returned(SortReverse(Prereleases(all)))
    ELSE Returned(SortReverse(
             SelectSeq(all, LAMBDA r : KeepRelease(r, repoPre, depPre))))

\* lines 71-114
Aggregate(links, depName, repoPre, depPre) ==
    FilterAndSort(Releases(depName, releases_info(links, depName, <<>>)),
                  repoPre, depPre)

(***************************************************************************)
(* _get_deps_from_links, lines 189-219                                     *)
(***************************************************************************)
\* GoodLink without the comparison of the versions (lines 194-195)
GoodLinkAnyVersion(link, name, version) ==
    canonicalize_name(_parse_name(link.name)[1]) = name

\* lines 189-196
GoodLink(link, name, version) ==
    LET parsed == _parse_name(link.name) IN
    /\ canonicalize_name(parsed[1]) = name
    /\ parsed[2] = version

good_links(links, name, version) ==
    SelectSeq(links, LAMBDA link : GoodLink(link, name, version))

\* lines 200-206
rules ==
    << [converter |-> "wheel", ext |-> X_py3_none_any_whl],
       [converter |-> "wheel", ext |-> X_none_any_whl],
       [converter |-> "wheel", ext |-> X_whl],
       [converter |-> "sdist", ext |-> X_tar_gz],
       [converter |-> "sdist", ext |-> X_zip] >>

\* line 210
RuleMatches(r, link) == EndsWith(link.name, rules[r].ext)

\* the positions (rule, link) of the two loops of lines 208-209, in the
\* order the loops visit them, from position at on
LoopPositions(good, at) ==
    {p \in (1..Len(rules)) \X (1..Len(good)) :
        p[1] > at[1] \/ (p[1] = at[1] /\ p[2] >= at[2])}

PosBefore(p, q) == p[1] < q[1] \/ (p[1] = q[1] /\ p[2] < q[2])

\* the positions from at on whose link the rule matches
Candidates(good, at) ==
    {p \in LoopPositions(good, at) : RuleMatches(p[1], good[p[2]])}

\* NextCandidate with the two loops nested the other way round
NextCandidateLinkFirst(good, at) ==
    CHOOSE p \in Candidates(good, at) :
        \A q \in Candidates(good, at) :
            ~(q[2] < p[2] \/ (q[2] = p[2] /\ q[1] < p[1]))

\* the next position the loops attempt a download at
NextCandidate(good, at) ==
    CHOOSE p \in Candidates(good, at) :
        \A q \in Candidates(good, at) : ~PosBefore(q, p)

\* Advance staying where it is: the download that failed is tried again
AdvanceNowhere(p) == p

\* the loop position after p
Advance(p) == <<p[1], p[2] + 1>>

(***************************************************************************)
(* The caches.  A JSONCache entry holds the dumped links, which json       *)
(* reads back unchanged; a TextCache entry holds the lines joined by a     *)
(* line feed and is read back split at the line feeds.                     *)
(***************************************************************************)
Absent == [present |-> FALSE, data |-> <<>>]

Present(data) == [present |-> TRUE, data |-> data]

LF == "\n"

TextDump(lines) == Present(Join(lines, LF))

TextLoad(entry) ==
    IF entry.present THEN Present(Split(entry.data, LF)) ELSE Absent

\* Requirement(dep) for every dep, no extra asked for
_convert_deps(deps) == [i \in 1..Len(deps) |-> [requirement |-> deps[i]]]

(***************************************************************************)
(* State                                                                   *)
(***************************************************************************)
VARIABLES
    index,        \* the <a> elements of the package's index page
    prereleases,  \* self.prereleases
    linksCache,   \* JSONCache(host, 'links', name)
    depsCache,    \* TextCache(host, 'deps', name, version), by version
    pc,           \* where each caller is in its call
    call,         \* the call of each caller: operation and arguments
    links,        \* the local links
    good,         \* the local good_links
    at,           \* the position (rule, link) of the loops of lines 208-209
    deps,         \* the local deps
    result,       \* what the last call returned or raised
    requests,     \* requests.get calls issued in the call
    response,     \* response.status_code of the last of them
    attempts,     \* _download_and_parse calls made in the call, in order
    warnings,     \* logger.warning calls made in the call
    hit,          \* what cache.load() of the links gave in the call
    prior,        \* the result of the first completed get_dependencies call
                  \* for the call's version, as known when the call began
    completed,    \* by version: the result of the first get_dependencies
                  \* call that returned
    trip          \* a file name on its way through _parse_name and back

vars == <<index, prereleases, linksCache, depsCache, pc, call, links, good,
          at, deps, result, requests, response, attempts, warnings, hit,
          prior, completed, trip>>

\* what no call changes
world == <<index, prereleases, trip>>

Callers == DOMAIN pc

NoCall == [op |-> "none", version |-> <<>>, prereleases |-> FALSE]

NoResult == [kind |-> "none", value |-> <<>>]

\* no request issued yet: there is no response
NoResponse == 0

\* line 133: posixpath.join(self.url, quote(name)) + '/'
dep_url(name) == <<"https://pypi.org/simple", "/", name, "/">>

\* line 136
PackageNotFoundError == [error |-> "PackageNotFoundError",
                         package |-> Package, url |-> dep_url(Package)]

\* response.raise_for_status()
HTTPError == Exception("HTTPError")

\* what _download_and_parse raises that is no FileNotFoundError
ConverterError == Exception("ConverterError")

\* no pair parsed yet
NoPair == <<>>

\* no file name is on a round trip
NoTrip == [fname |-> <<>>, pair |-> NoPair, first |-> NoPair,
           form |-> "none", rounds |-> 0, parsed |-> FALSE]

\* the state of the repository for the callers, no call made yet
RepoInit(callers) ==
    /\ linksCache = Absent
    /\ depsCache = [v \in ReqVersions |-> Absent]
    /\ pc = [c \in callers |-> "idle"]
    /\ call = [c \in callers |-> NoCall]
    /\ links = [c \in callers |-> <<>>]
    /\ good = [c \in callers |-> <<>>]
    /\ at = [c \in callers |-> <<1, 1>>]
    /\ deps = [c \in callers |-> <<>>]
    /\ result = [c \in callers |-> NoResult]
    /\ requests = [c \in callers |-> 0]
    /\ response = [c \in callers |-> NoResponse]
    /\ attempts = [c \in callers |-> <<>>]
    /\ warnings = [c \in callers |-> 0]
    /\ hit = [c \in callers |-> "none"]
    /\ prior = [c \in callers |-> Absent]
    /\ completed = [v \in ReqVersions |-> Absent]

InitFor(callers) ==
    /\ index \in Pages
    /\ prereleases \in BOOLEAN
    /\ trip = NoTrip
    /\ RepoInit(callers)

Init == InitFor({1})

\* a call begins: its locals and its records start afresh
Begin(c, theCall, first) ==
    /\ pc[c] = "idle"
    /\ pc' = [pc EXCEPT ![c] = first]
    /\ call' = [call EXCEPT ![c] = theCall]
    /\ links' = [links EXCEPT ![c] = <<>>]
    /\ good' = [good EXCEPT ![c] = <<>>]
    /\ at' = [at EXCEPT ![c] = <<1, 1>>]
    /\ deps' = [deps EXCEPT ![c] = <<>>]
    /\ result' = [result EXCEPT ![c] = NoResult]
    /\ requests' = [requests EXCEPT ![c] = 0]
    /\ response' = [response EXCEPT ![c] = NoResponse]
    /\ attempts' = [attempts EXCEPT ![c] = <<>>]
    /\ warnings' = [warnings EXCEPT ![c] = 0]
    /\ hit' = [hit EXCEPT ![c] = "none"]
    /\ UNCHANGED <<world, linksCache, depsCache, completed>>

\* get_releases(dep) is called
CallGetReleases(c) ==
    \E depPre \in BOOLEAN :
        /\ Begin(c, [op |-> "get_releases", version |-> <<>>,
                     prereleases |-> depPre], "load_links")
        /\ prior' = [prior EXCEPT ![c] = Absent]

\* get_dependencies(name, version) is called
CallGetDependencies(c) ==
    \E v \in ReqVersions :
        /\ Begin(c, [op |-> "get_dependencies", version |-> v,
                     prereleases |-> FALSE], "load_deps")
        /\ prior' = [prior EXCEPT ![c] = completed[v]]

\* the call of c ends with the result res
Finish(c, res) ==
    /\ pc' = [pc EXCEPT ![c] = "idle"]
    /\ result' = [result EXCEPT ![c] = res]
    /\ completed' =
           IF /\ call[c].op = "get_dependencies"
              /\ res.kind = "return"
              /\ ~completed[call[c].version].present
           THEN [completed EXCEPT ![call[c].version] = Present(res.value)]
           ELSE completed

\* lines 118-123, deps is None: the extraction task is started
LoadDepsMiss(c) ==
    /\ pc[c] = "load_deps"
    /\ ~TextLoad(depsCache[call[c].version]).present
    /\ pc' = [pc EXCEPT ![c] = "load_links"]
    /\ UNCHANGED <<world, linksCache, depsCache, call, links, good, at, deps,
                   result, requests, response, attempts, warnings, hit, prior,
                   completed>>

\* lines 125-126: deps == ['']
LoadDepsEmpty(c) ==
    /\ pc[c] = "load_deps"
    /\ TextLoad(depsCache[call[c].version]) = Present(<< <<>> >>)
    /\ Finish(c, Returned(<<>>))
    /\ UNCHANGED <<world, linksCache, depsCache, call, links, good, at, deps,
                   requests, response, attempts, warnings, hit, prior>>

\* lines 119, 127: deps read from the cache are converted
LoadDepsHit(c) ==
    LET entry == TextLoad(depsCache[call[c].version]) IN
    /\ pc[c] = "load_deps"
    /\ entry.present
    /\ entry.data # << <<>> >>
    /\ deps' = [deps EXCEPT ![c] = entry.data]
    /\ Finish(c, Returned(_convert_deps(entry.data)))
    /\ UNCHANGED <<world, linksCache, depsCache, call, links, good, at,
                   requests, response, attempts, warnings, hit, prior>>

\* where a call goes on once it has the links
AfterLinks(c) ==
    IF call[c].op = "get_releases" THEN "aggregate" ELSE "filter"

\* LoadLinksHit with "if not links" for "if links is None"
LoadLinksHitUnlessEmpty(c) ==
    /\ pc[c] = "load_links"
    /\ linksCache.present
    /\ links' = [links EXCEPT ![c] = linksCache.data]
    /\ hit' = [hit EXCEPT ![c] = "hit"]
    /\ pc' = [pc EXCEPT ![c] =
                 IF linksCache.data = <<>> THEN "fetch" ELSE AfterLinks(c)]
    /\ UNCHANGED <<world, linksCache, depsCache, call, good, at, deps,
                   result, requests, response, attempts, warnings, prior, completed>>

\* lines 62-67 and 180-185: links = cache.load(), not None
LoadLinksHit(c) ==
    /\ pc[c] = "load_links"
    /\ linksCache.present
    /\ links' = [links EXCEPT ![c] = linksCache.data]
    /\ hit' = [hit EXCEPT ![c] = "hit"]
    /\ pc' = [pc EXCEPT ![c] = AfterLinks(c)]
    /\ UNCHANGED <<world, linksCache, depsCache, call, good, at, deps,
                   result, requests, response, attempts, warnings, prior, completed>>

\* lines 62-67 and 180-185: links = cache.load(), None
LoadLinksMiss(c) ==
    /\ pc[c] = "load_links"
    /\ ~linksCache.present
    /\ hit' = [hit EXCEPT ![c] = "miss"]
    /\ pc' = [pc EXCEPT ![c] = "fetch"]
    /\ UNCHANGED <<world, linksCache, depsCache, call, links, good, at, deps,
                   result, requests, response, attempts, warnings, prior, completed>>

\* lines 68/186 and 132-153: the index answers 200
FetchLinksOk(c) ==
    /\ pc[c] = "fetch"
    /\ requests' = [requests EXCEPT ![c] = @ + 1]
    /\ response' = [response EXCEPT ![c] = 200]
    /\ links' = [links EXCEPT ![c] = _get_links(index)]
    /\ pc' = [pc EXCEPT ![c] = "dump_links"]
    /\ UNCHANGED <<world, linksCache, depsCache, call, good, at, deps,
                   result, attempts, warnings, hit, prior, completed>>

\* FetchLinksNotFound with a retry: the request is issued again
FetchLinksNotFoundRetried(c) ==
    /\ pc[c] = "fetch"
    /\ requests[c] < 2
    /\ requests' = [requests EXCEPT ![c] = @ + 1]
    /\ response' = [response EXCEPT ![c] = 404]
    /\ UNCHANGED <<world, linksCache, depsCache, pc, call, links, good, at,
                   deps, result, attempts, warnings, hit, prior, completed>>

\* lines 135-136: the index answers 404
FetchLinksNotFound(c) ==
    /\ pc[c] = "fetch"
    /\ requests' = [requests EXCEPT ![c] = @ + 1]
    /\ response' = [response EXCEPT ![c] = 404]
    /\ Finish(c, Raised(PackageNotFoundError))
    /\ UNCHANGED <<world, linksCache, depsCache, call, links, good, at, deps,
                   attempts, warnings, hit, prior>>

\* FetchLinksError leaving an empty listing in the cache
FetchLinksErrorDumped(c) ==
    /\ pc[c] = "fetch"
    /\ requests' = [requests EXCEPT ![c] = @ + 1]
    /\ response' = [response EXCEPT ![c] = 500]
    /\ linksCache' = Present(<<>>)
    /\ Finish(c, Raised(HTTPError))
    /\ UNCHANGED <<world, depsCache, call, links, good, at, deps,
                   attempts, warnings, hit, prior>>

\* line 137: the index answers another error status
FetchLinksError(c) ==
    /\ pc[c] = "fetch"
    /\ requests' = [requests EXCEPT ![c] = @ + 1]
    /\ response' = [response EXCEPT ![c] = 500]
    /\ Finish(c, Raised(HTTPError))
    /\ UNCHANGED <<world, linksCache, depsCache, call, links, good, at, deps,
                   attempts, warnings, hit, prior>>

\* DumpLinks adding to the entry that is there
DumpLinksAppending(c) ==
    /\ pc[c] = "dump_links"
    /\ linksCache' = IF linksCache.present
                     THEN Present(linksCache.data \o links[c])
                     ELSE Present(links[c])
    /\ pc' = [pc EXCEPT ![c] = AfterLinks(c)]
    /\ UNCHANGED <<world, depsCache, call, links, good, at, deps, result,
                   requests, response, attempts, warnings, hit, prior, completed>>

\* lines 69 and 187: cache.dump(links)
DumpLinks(c) ==
    /\ pc[c] = "dump_links"
    /\ linksCache' = Present(links[c])
    /\ pc' = [pc EXCEPT ![c] = AfterLinks(c)]
    /\ UNCHANGED <<world, depsCache, call, links, good, at, deps, result,
                   requests, response, attempts, warnings, hit, prior, completed>>

\* lines 71-114
AggregateReleases(c) ==
    /\ pc[c] = "aggregate"
    /\ Finish(c, Aggregate(links[c], Package, prereleases,
                           call[c].prereleases))
    /\ UNCHANGED <<world, linksCache, depsCache, call, links, good, at, deps,
                   requests, response, attempts, warnings, hit, prior>>

\* lines 189-196
FilterLinks(c) ==
    /\ pc[c] = "filter"
    /\ good' = [good EXCEPT ![c] =
                    good_links(links[c], Package, call[c].version)]
    /\ at' = [at EXCEPT ![c] = <<1, 1>>]
    /\ pc' = [pc EXCEPT ![c] = "select"]
    /\ UNCHANGED <<world, linksCache, depsCache, call, links, deps, result,
                   requests, response, attempts, warnings, hit, prior, completed>>

\* one _download_and_parse call of line 213, with its outcome
Attempt(c, outcome) ==
    LET p == NextCandidate(good[c], at[c]) IN
    /\ pc[c] = "select"
    /\ Candidates(good[c], at[c]) # {}
    /\ attempts' = [attempts EXCEPT ![c] =
                        Append(@, [rule |-> p[1], pos |-> p[2],
                                   url |-> good[c][p[2]].url,
                                   converter |-> rules[p[1]].converter,
                                   outcome |-> outcome])]

\* AttemptOk without the return: the loops go on after a success
AttemptOkGoesOn(c) ==
    LET p == NextCandidate(good[c], at[c]) IN
    /\ Attempt(c, "ok")
    /\ deps' = [deps EXCEPT ![c] = ArtifactDeps(good[c][p[2]].url)]
    /\ at' = [at EXCEPT ![c] = Advance(p)]
    /\ UNCHANGED <<world, linksCache, depsCache, pc, call, links, good,
                   result, requests, response, warnings, hit, prior, completed>>

\* lines 213-216: the download and the conversion succeed
AttemptOk(c) ==
    LET p == NextCandidate(good[c], at[c]) IN
    /\ Attempt(c, "ok")
    /\ deps' = [deps EXCEPT ![c] = ArtifactDeps(good[c][p[2]].url)]
    /\ pc' = [pc EXCEPT ![c] = "dump_deps"]
    /\ UNCHANGED <<world, linksCache, depsCache, call, links, good, at,
                   result, requests, response, warnings, hit, prior, completed>>

\* AttemptNotFound without the except clause: FileNotFoundError leaves
\* the call
AttemptNotFoundRaises(c) ==
    /\ Attempt(c, "notfound")
    /\ Finish(c, Raised(Exception("FileNotFoundError")))
    /\ UNCHANGED <<world, linksCache, depsCache, call, links, good, at, deps,
                   requests, response, warnings, hit, prior>>

\* lines 217-218: FileNotFoundError, logged; the loops go on
AttemptNotFound(c) ==
    LET p == NextCandidate(good[c], at[c]) IN
    /\ Attempt(c, "notfound")
    /\ warnings' = [warnings EXCEPT ![c] = @ + 1]
    /\ at' = [at EXCEPT ![c] = Advance(p)]
    /\ UNCHANGED <<world, linksCache, depsCache, pc, call, links, good, deps,
                   result, requests, response, hit, prior, completed>>

\* AttemptError with "except Exception": every error is logged and the
\* loops go on
AttemptErrorLogged(c) ==
    LET p == NextCandidate(good[c], at[c]) IN
    /\ Attempt(c, "error")
    /\ warnings' = [warnings EXCEPT ![c] = @ + 1]
    /\ at' = [at EXCEPT ![c] = Advance(p)]
    /\ UNCHANGED <<world, linksCache, depsCache, pc, call, links, good, deps,
                   result, requests, response, hit, prior, completed>>

\* any other exception of _download_and_parse leaves the call
AttemptError(c) ==
    /\ Attempt(c, "error")
    /\ Finish(c, Raised(ConverterError))
    /\ UNCHANGED <<world, linksCache, depsCache, call, links, good, at, deps,
                   requests, response, warnings, hit, prior>>

\* NoCandidate raising where line 219 returns ()
NoCandidateRaises(c) ==
    /\ pc[c] = "select"
    /\ Candidates(good[c], at[c]) = {}
    /\ Finish(c, Raised(Exception("LookupError")))
    /\ UNCHANGED <<world, linksCache, depsCache, call, links, good, at, deps,
                   requests, response, attempts, warnings, hit, prior>>

\* line 219: the loops end, return ()
NoCandidate(c) ==
    /\ pc[c] = "select"
    /\ Candidates(good[c], at[c]) = {}
    /\ deps' = [deps EXCEPT ![c] = <<>>]
    /\ pc' = [pc EXCEPT ![c] = "dump_deps"]
    /\ UNCHANGED <<world, linksCache, depsCache, call, links, good, at,
                   result, requests, response, attempts, warnings, hit, prior,
                   completed>>

\* DumpDeps with "if deps: cache.dump(deps)": nothing written for no
\* dependency
DumpDepsUnlessEmpty(c) ==
    /\ pc[c] = "dump_deps"
    /\ depsCache' = IF deps[c] = <<>> THEN depsCache
                    ELSE [depsCache EXCEPT
                              ![call[c].version] = TextDump(deps[c])]
    /\ pc' = [pc EXCEPT ![c] = "convert"]
    /\ UNCHANGED <<world, linksCache, call, links, good, at, deps, result,
                   requests, response, attempts, warnings, hit, prior, completed>>

\* line 124: cache.dump(deps)
DumpDeps(c) ==
    /\ pc[c] = "dump_deps"
    /\ depsCache' = [depsCache EXCEPT ![call[c].version] = TextDump(deps[c])]
    /\ pc' = [pc EXCEPT ![c] = "convert"]
    /\ UNCHANGED <<world, linksCache, call, links, good, at, deps, result,
                   requests, response, attempts, warnings, hit, prior, completed>>

\* line 127 after an extraction
ConvertDeps(c) ==
    /\ pc[c] = "convert"
    /\ Finish(c, Returned(_convert_deps(deps[c])))
    /\ UNCHANGED <<world, linksCache, depsCache, call, links, good, at, deps,
                   requests, response, attempts, warnings, hit, prior>>

\* the ttl of the links cache entry runs out: load() gives None again
ExpireLinks ==
    /\ linksCache.present
    /\ linksCache' = Absent
    /\ UNCHANGED <<world, depsCache, pc, call, links, good, at, deps, result,
                   requests, response, attempts, warnings, hit, prior, completed>>

Next ==
    \/ \E c \in Callers : CallGetReleases(c)
    \/ \E c \in Callers : CallGetDependencies(c)
    \/ \E c \in Callers : LoadDepsMiss(c)
    \/ \E c \in Callers : LoadDepsEmpty(c)
    \/ \E c \in Callers : LoadDepsHit(c)
    \/ \E c \in Callers : LoadLinksHit(c)
    \/ \E c \in Callers : LoadLinksMiss(c)
    \/ \E c \in Callers : FetchLinksOk(c)
    \/ \E c \in Callers : FetchLinksNotFound(c)
    \/ \E c \in Callers : FetchLinksError(c)
    \/ \E c \in Callers : DumpLinks(c)
    \/ \E c \in Callers : AggregateReleases(c)
    \/ \E c \in Callers : FilterLinks(c)
    \/ \E c \in Callers : AttemptOk(c)
    \/ \E c \in Callers : AttemptNotFound(c)
    \/ \E c \in Callers : AttemptError(c)
    \/ \E c \in Callers : NoCandidate(c)
    \/ \E c \in Callers : DumpDeps(c)
    \/ \E c \in Callers : ConvertDeps(c)
    \/ ExpireLinks

Spec == Init /\ [][Next]_vars

(***************************************************************************)
(* Properties                                                              *)
(***************************************************************************)
\* the rules that match a link, and the first of them
MatchingRules(link) == {r \in 1..Len(rules) : RuleMatches(r, link)}

FirstRule(link) ==
    CHOOSE r \in MatchingRules(link) : \A q \in MatchingRules(link) : r <= q

\* the link of the i-th attempt of caller c
AttemptLink(c, i) == good[c][attempts[c][i].pos]

AttemptPos(c, i) == <<attempts[c][i].rule, attempts[c][i].pos>>

LastAttempt(c) == attempts[c][Len(attempts[c])]

\* C1, as stated: every attempt on a candidate matched by an earlier rule
\* happens before any attempt on a candidate matched only by later rules.
C1_AllAttemptsOfEarlierRuleFirst ==
    \A c \in Callers : \A i, j \in 1..Len(attempts[c]) :
        FirstRule(AttemptLink(c, i)) < FirstRule(AttemptLink(c, j)) => i < j

\* C1, amended: the attempts are made rule by rule, top to bottom (an
\* attempt under an earlier rule is before every attempt under a later
\* rule, and under one rule the candidates are taken in listing order), and
\* before a candidate is attempted every candidate matched by an earlier
\* rule than its first has been attempted; so the wheel is attempted
\* before the source archive, in whatever order the listing has them.
C1_AttemptsFollowRuleTable ==
    \A c \in Callers :
        /\ \A i \in 1..Len(attempts[c]) :
               RuleMatches(attempts[c][i].rule, AttemptLink(c, i))
        /\ \A i, j \in 1..Len(attempts[c]) :
               i < j => PosBefore(AttemptPos(c, i), AttemptPos(c, j))
        /\ \A j \in 1..Len(attempts[c]) : \A k \in 1..Len(good[c]) :
               (/\ MatchingRules(good[c][k]) # {}
                /\ FirstRule(good[c][k]) < FirstRule(AttemptLink(c, j)))
               => \E i \in 1..(j - 1) : attempts[c][i].pos = k

\* C1's case: the source archive is listed before the wheel, the wheel was
\* not found and the source archive is attempted after it
C1_Witness ==
    \E c \in Callers :
        /\ Len(attempts[c]) >= 2
        /\ good[c][1].name = F_tgz_1_0
        /\ attempts[c][1].url = F_whl_py3
        /\ LastAttempt(c).url = F_tgz_1_0

\* C2: the first attempt that succeeds ends the extraction: its result is
\* what the extraction returns and no attempt is made after it.
C2_FirstSuccessWins ==
    \A c \in Callers : \A i \in 1..Len(attempts[c]) :
        attempts[c][i].outcome = "ok" =>
            /\ i = Len(attempts[c])
            /\ pc[c] \in {"dump_deps", "convert", "idle"}
            /\ deps[c] = ArtifactDeps(attempts[c][i].url)
            /\ pc[c] = "idle" =>
                   result[c] = Returned(_convert_deps(
                                   ArtifactDeps(attempts[c][i].url)))

\* C2's case: a call has ended after a successful attempt although
\* candidates were left that it never attempted
C2_Witness ==
    \E c \in Callers :
        /\ pc[c] = "idle"
        /\ attempts[c] # <<>>
        /\ LastAttempt(c).outcome = "ok"
        /\ Candidates(good[c], Advance(AttemptPos(c, Len(attempts[c])))) # {}

\* the number of attempts of c that ended in FileNotFoundError
NotFoundCount(c) ==
    Cardinality({i \in 1..Len(attempts[c]) :
                     attempts[c][i].outcome = "notfound"})

\* C3: an attempt that fails with FileNotFoundError does not fail the
\* call: a warning is logged, the next candidate in loop order is attempted,
\* and when a later candidate succeeds the call returns that candidate's
\* dependencies.
C3_NotFoundIsRecoverable ==
    \A c \in Callers :
        /\ warnings[c] = NotFoundCount(c)
        /\ \A i \in 1..Len(attempts[c]) :
               attempts[c][i].outcome = "notfound" =>
                   /\ i < Len(attempts[c]) =>
                          AttemptPos(c, i + 1) =
                              NextCandidate(good[c], Advance(AttemptPos(c, i)))
                   /\ (i = Len(attempts[c]) /\ pc[c] # "select") =>
                          /\ Candidates(good[c],
                                        Advance(AttemptPos(c, i))) = {}
                          /\ result[c].kind # "raise"
                   /\ (pc[c] = "idle"
                       /\ LastAttempt(c).outcome = "ok") =>
                          result[c] = Returned(_convert_deps(
                                          ArtifactDeps(LastAttempt(c).url)))

\* C3's case: the wheel was not found, the tarball succeeded, and the call
\* returned the tarball's dependencies
C3_Witness ==
    \E c \in Callers :
        /\ pc[c] = "idle"
        /\ Len(attempts[c]) >= 2
        /\ attempts[c][1].url = F_whl_py3
        /\ attempts[c][1].outcome = "notfound"
        /\ LastAttempt(c).url = F_tgz_1_0
        /\ LastAttempt(c).outcome = "ok"
        /\ warnings[c] >= 1
        /\ result[c] = Returned(_convert_deps(<<S_baz>>))

\* the call of c was a get_releases call that went through lines 71-114
Aggregated(c) ==
    /\ pc[c] = "idle"
    /\ call[c].op = "get_releases"
    /\ \/ result[c].kind = "return"
       \/ /\ result[c].kind = "raise"
          /\ result[c].value = UnboundLocalError

\* prereleases are allowed neither by the repository nor by the query
PrereleasesDisabled(c) == ~prereleases /\ ~call[c].prereleases

\* the version strings of the links of the package that have one
MatchingVersions(ls) ==
    {_parse_name(ls[i].name)[2] : i \in
        {k \in 1..Len(ls) :
            /\ canonicalize_name(_parse_name(ls[k].name)[1]) = Package
            /\ _parse_name(ls[k].name)[2] # <<>>}}

IsPrereleaseString(v) == is_prerelease(parse_version(v))

\* the version strings of the releases of a result
ResultVersions(res) == {res.value[i].str : i \in 1..Len(res.value)}

\* C4: when every matching link has a prerelease version, and there is
\* one, get_releases with prereleases disabled returns just these
\* prereleases, not nothing.
C4_PrereleaseFallback ==
    \A c \in Callers :
        (/\ Aggregated(c)
         /\ PrereleasesDisabled(c)
         /\ MatchingVersions(links[c]) # {}
         /\ \A v \in MatchingVersions(links[c]) : IsPrereleaseString(v))
        => /\ result[c].kind = "return"
           /\ result[c].value # <<>>
           /\ ResultVersions(result[c]) = MatchingVersions(links[c])

\* C5: when some matching link has a version that is no prerelease,
\* get_releases with prereleases disabled returns no prerelease and returns
\* every matching version that is no prerelease.
C5_PrereleasesExcluded ==
    \A c \in Callers :
        (/\ Aggregated(c)
         /\ PrereleasesDisabled(c)
         /\ \E v \in MatchingVersions(links[c]) : ~IsPrereleaseString(v))
        => /\ result[c].kind = "return"
           /\ \A i \in 1..Len(result[c].value) :
                  ~is_prerelease(result[c].value[i].version)
           /\ ResultVersions(result[c]) =
                  {v \in MatchingVersions(links[c]) : ~IsPrereleaseString(v)}

\* C5's case: the listing has a final release and a prerelease of the
\* package, and the call returned the final release alone
C5_Witness ==
    \E c \in Callers :
        /\ Aggregated(c)
        /\ PrereleasesDisabled(c)
        /\ MatchingVersions(links[c]) = {V_1_0, V_2_0a1}
        /\ ResultVersions(result[c]) = {V_1_0}

\* the orders a listing can come in
Reorderings(q) ==
    {r \in [1..Len(q) -> Range(q)] : Range(r) = Range(q)}

VersionsOf(res) == [i \in 1..Len(res.value) |-> res.value[i].str]

\* C6: the releases are returned by strictly descending version, and the
\* same sequence is returned for every order of the links.
C6_StrictlyDescending ==
    \A c \in Callers :
        (Aggregated(c) /\ result[c].kind = "return") =>
            /\ \A i \in 1..(Len(result[c].value) - 1) :
                   VersionLess(result[c].value[i + 1].version,
                               result[c].value[i].version)
            /\ \A q \in Reorderings(links[c]) :
                   LET other == Aggregate(q, Package, prereleases,
                                          call[c].prereleases)
                   IN  /\ other.kind = "return"
                       /\ VersionsOf(other) = VersionsOf(result[c])

\* the requests a call may have issued by the time it is at pc
RequestsDue(c) ==
    IF hit[c] = "miss" /\ pc[c] # "fetch" THEN 1 ELSE 0

\* C7, in every state: a call that found the links entry present, be it
\* an empty list, issues no index request; a call that found it absent
\* issues exactly one; the entry only ever holds the fetched listing.
C7_RequestsFollowCache ==
    /\ \A c \in Callers :
           /\ hit[c] = "hit" => requests[c] = 0
           /\ call[c].op # "none" => requests[c] = RequestsDue(c)
    /\ linksCache.present => linksCache.data = _get_links(index)

\* C7, in every step: a successful fetch is written back, so that the
\* entry is present and equal to the fetched listing; a call that loads
\* the entry while it is present does not fetch.
C7_WriteBack ==
    \A c \in Callers :
        /\ (pc[c] = "dump_links" /\ pc'[c] # "dump_links") =>
               linksCache' = Present(_get_links(index))
        /\ (pc[c] = "load_links" /\ pc'[c] # "load_links"
            /\ linksCache.present) =>
               /\ pc'[c] # "fetch"
               /\ links'[c] = linksCache.data

\* C7: the links are read through the cache.
C7_ReadThrough == []C7_RequestsFollowCache /\ [][C7_WriteBack]_vars

\* C7's case: a call has ended that found the entry present with an empty
\* list, which an earlier call had fetched and written
C7_Witness ==
    \E c \in Callers :
        /\ pc[c] = "idle"
        /\ hit[c] = "hit"
        /\ call[c].op = "get_dependencies"
        /\ links[c] = <<>>
        /\ linksCache = Present(<<>>)
        /\ requests[c] = 0
        /\ result[c].kind = "return"

\* C8: once a get_dependencies call for a version has returned, the deps
\* entry of the version is present (the line-feed join of no dependency
\* reads back as the list of one empty string), and a call for the version
\* that begins afterwards issues no index request, attempts no download
\* and returns what the first call returned.
C8_DepsCached ==
    /\ \A v \in ReqVersions :
           completed[v].present =>
               /\ depsCache[v].present
               /\ _convert_deps(completed[v].data) = <<>> =>
                      TextLoad(depsCache[v]) = Present(<< <<>> >>)
    /\ \A c \in Callers :
           (call[c].op = "get_dependencies" /\ prior[c].present) =>
               /\ requests[c] = 0
               /\ attempts[c] = <<>>
               /\ hit[c] = "none"
               /\ pc[c] = "idle" => result[c] = Returned(prior[c].data)

\* C8's case: a second call for a version whose extraction had found no
\* dependency has returned the empty result from the cache
C8_Witness ==
    \E c \in Callers :
        /\ pc[c] = "idle"
        /\ call[c].op = "get_dependencies"
        /\ prior[c] = Present(<<>>)
        /\ TextLoad(depsCache[call[c].version]) = Present(<< <<>> >>)
        /\ result[c] = Returned(<<>>)

\* C9: an attempt that fails with another error than FileNotFoundError is
\* the last one of the call, and the call raises that error.
C9_OtherErrorPropagates ==
    \A c \in Callers : \A i \in 1..Len(attempts[c]) :
        attempts[c][i].outcome = "error" =>
            /\ i = Len(attempts[c])
            /\ pc[c] = "idle"
            /\ result[c] = Raised(ConverterError)

\* C9's case: a call has raised the error of an attempt although
\* candidates were left that it never attempted
C9_Witness ==
    \E c \in Callers :
        /\ pc[c] = "idle"
        /\ attempts[c] # <<>>
        /\ LastAttempt(c).outcome = "error"
        /\ result[c].kind = "raise"
        /\ Candidates(good[c], Advance(AttemptPos(c, Len(attempts[c])))) # {}

\* the extraction of the call of c has come to its end with the links read
Extracted(c) ==
    /\ call[c].op = "get_dependencies"
    /\ hit[c] # "none"
    /\ \/ pc[c] \in {"dump_deps", "convert"}
       \/ /\ pc[c] = "idle"
          /\ ~(result[c].kind = "raise"
               /\ result[c].value \in {PackageNotFoundError, HTTPError})

\* the links of ls that match the requested name and version
Matching(c) == good_links(links[c], Package, call[c].version)

\* C10: when no link matches the requested name and version, or no
\* matching link has a suffix of the rule table, or every attempt failed
\* with FileNotFoundError, the extraction returns the empty sequence and
\* does not raise; and no attempt is ever made on a link that does not
\* match.
C10_NothingFoundIsEmpty ==
    \A c \in Callers :
        /\ (/\ Extracted(c)
            /\ \/ Matching(c) = <<>>
               \/ \A k \in 1..Len(Matching(c)) :
                      MatchingRules(Matching(c)[k]) = {}
               \/ \A i \in 1..Len(attempts[c]) :
                      attempts[c][i].outcome = "notfound")
           => /\ deps[c] = <<>>
              /\ result[c].kind # "raise"
              /\ pc[c] = "idle" => result[c] = Returned(<<>>)
        /\ \A i \in 1..Len(attempts[c]) :
               \E k \in 1..Len(links[c]) :
                   /\ links[c][k].url = attempts[c][i].url
                   /\ canonicalize_name(_parse_name(links[c][k].name)[1])
                          = Package
                   /\ _parse_name(links[c][k].name)[2] = call[c].version

\* C10's case: every candidate was attempted and not found, another
\* package's file was in the listing, and the call returned nothing
C10_Witness ==
    \E c \in Callers :
        /\ pc[c] = "idle"
        /\ call[c].op = "get_dependencies"
        /\ attempts[c] # <<>>
        /\ \A i \in 1..Len(attempts[c]) : attempts[c][i].outcome = "notfound"
        /\ Len(good[c]) < Len(links[c])
        /\ result[c] = Returned(<<>>)

\* C11: when the listing gives nothing to build a release from (it is
\* empty, or no link has the package's name, or every link of the package
\* has an empty version), get_releases returns the empty sequence and does
\* not raise.
C11_NothingToBuildIsEmpty ==
    \A c \in Callers :
        (/\ pc[c] = "idle"
         /\ call[c].op = "get_releases"
         /\ hit[c] # "none"
         /\ result[c] \notin {Raised(PackageNotFoundError), Raised(HTTPError)}
         /\ MatchingVersions(links[c]) = {})
        => result[c] = Returned(<<>>)

\* C12: when the index answers 404, the call raises PackageNotFoundError
\* with the package name and the requested URL, and the request is the
\* only one of the call.
C12_NotFoundRaised ==
    \A c \in Callers :
        response[c] = 404 =>
            /\ pc[c] = "idle"
            /\ requests[c] = 1
            /\ result[c].kind = "raise"
            /\ result[c].value.error = "PackageNotFoundError"
            /\ result[c].value.package = Package
            /\ result[c].value.url =
                   <<"https://pypi.org/simple", "/", Package, "/">>

\* C12's case: a get_dependencies call has got the 404
C12_Witness ==
    \E c \in Callers :
        /\ response[c] = 404
        /\ call[c].op = "get_dependencies"
        /\ pc[c] = "idle"
        /\ result[c] = Raised(PackageNotFoundError)

\* C13: no two releases of one result have equal versions: a version has
\* one Release, however many links the listing has for it.
C13_OneReleasePerVersion ==
    \A c \in Callers :
        (Aggregated(c) /\ result[c].kind = "return") =>
            \A i, j \in 1..Len(result[c].value) :
                VersionEq(result[c].value[i].version,
                          result[c].value[j].version) => i = j

\* C15: when prereleases are enabled by the repository or by the query,
\* get_releases returns, and every matching version, prerelease or not, is
\* the version of a release of the result.
C15_PrereleasesIncluded ==
    \A c \in Callers :
        (Aggregated(c) /\ ~PrereleasesDisabled(c)) =>
            \A v \in MatchingVersions(links[c]) :
                /\ result[c].kind = "return"
                /\ v \in ResultVersions(result[c])

\* C15's case: the query alone asks for prereleases, and the result has the
\* final release and the prerelease of the listing
C15_Witness ==
    \E c \in Callers :
        /\ Aggregated(c)
        /\ ~prereleases
        /\ call[c].prereleases
        /\ MatchingVersions(links[c]) = {V_1_0, V_2_0a1}
        /\ result[c].kind = "return"
        /\ ResultVersions(result[c]) = {V_1_0, V_2_0a1}

\* the links of the listing of c that the i-th attempt of c downloads
Targets(c, i) ==
    {k \in 1..Len(links[c]) : links[c][k].url = attempts[c][i].url}

\* C16: every download attempt of an extraction call is on a link of the
\* listing whose parsed name, canonicalized, is the requested name and
\* whose parsed version is the requested version.
C16_OnlyRequestedArtifact ==
    \A c \in Callers : \A i \in 1..Len(attempts[c]) :
        /\ Targets(c, i) # {}
        /\ \A k \in Targets(c, i) :
               /\ canonicalize_name(_parse_name(links[c][k].name)[1])
                      = Package
               /\ _parse_name(links[c][k].name)[2] = call[c].version

\* C16's case: the listing has an artifact of the requested version and one
\* of another version, and the call has downloaded
C16_Witness ==
    \E c \in Callers :
        /\ call[c].op = "get_dependencies"
        /\ call[c].version = V_1_0
        /\ \E k \in 1..Len(links[c]) : links[c][k].name = F_tgz_2_0a1
        /\ attempts[c] # <<>>
        /\ attempts[c][1].url = F_tgz_1_0

\* the attempts of c on the k-th candidate
AttemptsOn(c, k) == {i \in 1..Len(attempts[c]) : attempts[c][i].pos = k}

\* C17, as stated: no candidate is downloaded more than once in a call, so
\* the attempts are no more than the candidates.
C17_OncePerCandidate ==
    \A c \in Callers :
        /\ \A k \in 1..Len(good[c]) : Cardinality(AttemptsOn(c, k)) <= 1
        /\ Len(attempts[c]) <= Len(good[c])

\* C17, amended: no candidate is downloaded more than once under one rule,
\* and only under the rules that match it; so a candidate is downloaded no
\* more often than rules match it, which is three times at most.
C17_OncePerRule ==
    \A c \in Callers :
        /\ \A i, j \in 1..Len(attempts[c]) :
               AttemptPos(c, i) = AttemptPos(c, j) => i = j
        /\ \A k \in 1..Len(good[c]) :
               /\ Cardinality(AttemptsOn(c, k))
                      <= Cardinality(MatchingRules(good[c][k]))
               /\ Cardinality(AttemptsOn(c, k)) <= 3

\* C17's case: the one candidate was not found under the first rule, nor
\* under the second, and is downloaded a third time
C17_Witness ==
    \E c \in Callers :
        /\ Len(good[c]) = 1
        /\ Len(attempts[c]) = 3
        /\ \A i \in 1..3 :
               /\ attempts[c][i].url = F_whl_py3
               /\ attempts[c][i].rule = i

\* the call of c has ended by raising
HasRaised(c) == pc[c] = "idle" /\ result[c].kind = "raise"

\* C18, in every state: after a call whose index request was answered with
\* an error status the links entry is absent; after a get_dependencies
\* call that raised the deps entry of its version is absent; a deps entry
\* is present only for a version whose extraction succeeded.
C18_NoEntryAfterRaise ==
    /\ \A c \in Callers :
           /\ (HasRaised(c) /\ response[c] \in {404, 500}) =>
                  ~linksCache.present
           /\ (HasRaised(c) /\ call[c].op = "get_dependencies") =>
                  ~depsCache[call[c].version].present
    /\ \A v \in ReqVersions :
           depsCache[v].present =>
               \/ completed[v].present
               \/ \E c \in Callers : pc[c] = "convert" /\ call[c].version = v

\* C18, in every step: the step in which a call raises writes no deps
\* entry, and no links entry when it is the index request that failed.
C18_RaiseWritesNothing ==
    \A c \in Callers :
        (pc[c] # "idle" /\ pc'[c] = "idle" /\ result'[c].kind = "raise") =>
            /\ depsCache' = depsCache
            /\ pc[c] = "fetch" => linksCache' = linksCache

\* C18: a call that raises leaves no cache entry for what it failed to
\* produce.
C18_NoCacheOnRaise == []C18_NoEntryAfterRaise /\ [][C18_RaiseWritesNothing]_vars

\* C18's case: get_dependencies has raised the error status of the index,
\* and neither the links entry nor the deps entry of the version is there
C18_Witness ==
    \E c \in Callers :
        /\ HasRaised(c)
        /\ call[c].op = "get_dependencies"
        /\ response[c] = 500
        /\ result[c] = Raised(HTTPError)
        /\ ~linksCache.present
        /\ ~depsCache[call[c].version].present

\* the digests, in listing order, of the links of ls that are of the
\* package and whose file name has the version
RECURSIVE DigestsOf(_, _)
DigestsOf(ls, version) ==
    IF ls = <<>> THEN <<>>
    ELSE LET link == Head(ls)
             parsed == _parse_name(link.name)
         IN  (IF /\ canonicalize_name(parsed[1]) = Package
                 /\ parsed[2] = version
                 /\ link.digest # NoDigest
              THEN <<link.digest>> ELSE <<>>)
             \o DigestsOf(Tail(ls), version)

\* the listing of the example: a wheel of 1.0 with digest abc, then a source
\* archive of 2.0a1 without digest
ExampleLinks ==
    <<[url |-> F_whl_py3, name |-> F_whl_py3, python |-> ">=3.6",
       digest |-> "abc"],
      [url |-> F_tgz_2_0a1, name |-> F_tgz_2_0a1, python |-> "*",
       digest |-> NoDigest]>>

\* C20: the hashes of every release that get_releases returns are the
\* digests of the links of the package with the release's version, in
\* listing order, a link without digest giving none; for the listing of
\* the example and prereleases disabled the result is the one release 1.0
\* with the hashes ("abc",).
C20_HashesOfVersion ==
    \A c \in Callers :
        (Aggregated(c) /\ result[c].kind = "return") =>
            /\ \A i \in 1..Len(result[c].value) :
                   result[c].value[i].hashes =
                       DigestsOf(links[c], result[c].value[i].str)
            /\ (links[c] = ExampleLinks /\ PrereleasesDisabled(c)) =>
                   /\ Len(result[c].value) = 1
                   /\ result[c].value[1].str = V_1_0
                   /\ result[c].value[1].hashes = <<"abc">>

\* C20's case: the example
C20_Witness ==
    \E c \in Callers :
        /\ Aggregated(c)
        /\ PrereleasesDisabled(c)
        /\ links[c] = ExampleLinks
        /\ result[c].kind = "return"
        /\ result[c].value[1].hashes = <<"abc">>

(***************************************************************************)
(* get_releases called by several callers at once, one call each, for the  *)
(* same package and within the time to live of the links entry.  A step    *)
(* is one caller's cache.load(), request, cache.dump() or aggregation.     *)
(***************************************************************************)

\* the callers that call at once
NumCallers == 2

ConcCallers == 1..NumCallers

\* the pages the concurrent calls are checked on
ConcAnchors ==
    {a \in Anchors : a.href \in {F_whl_py3, F_tgz_1_0, F_tgz_2_0a1}}

ConcPages == {q \in Pages : Range(q) \subseteq ConcAnchors}

ConcInit ==
    /\ index \in ConcPages
    /\ prereleases \in BOOLEAN
    /\ trip = NoTrip
    /\ RepoInit(ConcCallers)

\* the one get_releases call of c
ConcCall(c) == call[c] = NoCall /\ CallGetReleases(c)

ConcNext ==
    \/ \E c \in Callers : ConcCall(c)
    \/ \E c \in Callers : LoadLinksHit(c)
    \/ \E c \in Callers : LoadLinksMiss(c)
    \/ \E c \in Callers : FetchLinksOk(c)
    \/ \E c \in Callers : FetchLinksNotFound(c)
    \/ \E c \in Callers : FetchLinksError(c)
    \/ \E c \in Callers : DumpLinks(c)
    \/ \E c \in Callers : AggregateReleases(c)

SpecConc == ConcInit /\ [][ConcNext]_vars

\* what get_releases gives when it is called alone, the entry absent, and
\* the index answers with status
Isolated(status, depPre) ==
    CASE status = 404 -> Raised(PackageNotFoundError)
      [] status = 500 -> Raised(HTTPError)
      [] OTHER -> Aggregate(_get_links(index), Package, prereleases, depPre)

\* the status c's call has from the index, or 200 when it read the entry
StatusOf(c) == IF hit[c] = "hit" THEN 200 ELSE response[c]

\* C19: however the steps of the callers interleave, a call that has ended
\* has the result a call alone would have, the links entry never holds
\* anything but the fetched listing, and once every call has ended and one
\* of them was answered the listing, the entry holds it.
C19_ConcurrentCallsAgree ==
    /\ \A c \in Callers :
           (pc[c] = "idle" /\ call[c] # NoCall) =>
               result[c] = Isolated(StatusOf(c), call[c].prereleases)
    /\ linksCache.present => linksCache.data = _get_links(index)
    /\ (/\ \A c \in Callers : pc[c] = "idle" /\ call[c] # NoCall
        /\ \E c \in Callers : StatusOf(c) = 200)
       => linksCache = Present(_get_links(index))

\* C19's case: two callers found the entry absent, both requested the
\* listing and both wrote it, and both have returned the same releases
C19_Witness ==
    /\ \A c \in {1, 2} :
           /\ pc[c] = "idle"
           /\ hit[c] = "miss"
           /\ response[c] = 200
           /\ result[c].kind = "return"
           /\ result[c].value # <<>>
    /\ call[1].prereleases = call[2].prereleases
    /\ result[1] = result[2]
    /\ linksCache = Present(_get_links(index))

(***************************************************************************)
(* _parse_name on its own: a file name that ends in .whl is parsed, a file *)
(* name is built again from the pair, and that one is parsed in turn.      *)
(***************************************************************************)

\* the most segments between hyphens before a wheel's tags
MaxSegments == 3

\* the most times a pair is made into a file name again
MaxRounds == 2

V_1 == <<"1">>

Segments == {S_foo, S_bar, V_1_0, V_2_0a1, V_1}

\* what follows the segments: three tags, or the suffix alone
Tags == {Dash \o X_py3_none_any_whl, Dash \o T_cp37_abi3_win \o X_whl,
         X_whl}

Padding == {<<>>, <<" ">>}

\* the file names that end in .whl
WheelNames ==
    {pad \o Join(segs, "-") \o tags \o pad :
        pad \in Padding, tags \in Tags,
        segs \in SeqsUpTo(Segments, MaxSegments) \ {<<>>}}

ParseInit ==
    /\ index = <<>>
    /\ prereleases = FALSE
    /\ RepoInit({})
    /\ trip \in {[NoTrip EXCEPT !.fname = f] : f \in WheelNames}

repo == <<index, prereleases, linksCache, depsCache, pc, call, links, good,
          at, deps, result, requests, response, attempts, warnings, hit,
          prior, completed>>

\* (name, version) = _parse_name(fname)
ParseName ==
    /\ ~trip.parsed
    /\ LET pair == _parse_name(trip.fname) IN
       trip' = [trip EXCEPT !.pair = pair,
                            !.first = IF trip.rounds = 0 THEN pair ELSE @,
                            !.parsed = TRUE]
    /\ UNCHANGED repo

Reconstruct(form, suffix) ==
    /\ trip.parsed
    /\ trip.rounds < MaxRounds
    /\ trip.form \in {"none", form}
    /\ trip' = [trip EXCEPT !.fname = trip.pair[1] \o Dash \o trip.pair[2]
                                          \o suffix,
                            !.form = form,
                            !.rounds = @ + 1,
                            !.parsed = FALSE]
    /\ UNCHANGED repo

\* '<name>-<version>'
ReconstructStem == Reconstruct("stem", <<>>)

\* '<name>-<version>-py3-none-any.whl'
ReconstructWheel == Reconstruct("wheel", Dash \o X_py3_none_any_whl)

ParseNext ==
    \/ ParseName
    \/ ReconstructStem
    \/ ReconstructWheel

SpecParse == ParseInit /\ [][ParseNext]_vars

\* C14 as stated: for a file name that ends in .whl, the pair parsed from
\* '<name>-<version>' is the pair parsed from the file name, however often
\* the step is repeated.
C14_StemRoundTrip ==
    (trip.form = "stem" /\ trip.parsed) => trip.pair = trip.first

\* C14, amended: for a file name that ends in .whl, the pair parsed from
\* '<name>-<version>-py3-none-any.whl' is the pair parsed from the file
\* name, however often the step is repeated.
C14_WheelRoundTrip ==
    (trip.form = "wheel" /\ trip.parsed) => trip.pair = trip.first

C14_Witness ==
    /\ trip.form = "wheel"
    /\ trip.parsed
    /\ trip.rounds = 2
    /\ trip.first = <<S_foo, V_1_0>>
    /\ trip.pair = trip.first

====
